---- MODULE Spec2Model ----
(***************************************************************************)
(* The thermostat synchronisation engine of homebridge-resideo            *)
(* (class TCCthermostat, src/src/devices/device.ts).                       *)
(*                                                                         *)
(* One TCCthermostat object is modelled.  The JavaScript runtime is        *)
(* single-threaded: every action below is one callback run to its next     *)
(* await (a host set handler, a timer callback, the continuation of a      *)
(* network call).  Time advances in steps of 50ms (action Tick), so the    *)
(* 100ms debounce is DebounceTicks = 2 steps; a timer callback that is due *)
(* runs before time advances.                                              *)
(*                                                                         *)
(* Temperatures are numbers in half units: the model stores 2*v for the    *)
(* JavaScript number v (68 degrees Fahrenheit is 136, 21.5 degrees Celsius *)
(* is 43), so that the half-degree grid of toCelsius is a set of integers. *)
(***************************************************************************)
EXTENDS Integers, FiniteSets, Sequences, TLC

(***************************************************************************)
(* Bounds of the model.                                                    *)
(***************************************************************************)
\* the largest number of network calls in flight at one time
MaxTasks == 2

\* the largest temperature, in degrees, the unit translation is applied to
MaxFahrenheit == 212

\* the setTimeout callbacks of setTemperatureDisplayUnits pending at a time
MaxUnitTimers == 2

(***************************************************************************)
(* Constants of the program and of the host framework.                     *)
(***************************************************************************)
\* Characteristic.TargetHeatingCoolingState
OFF == 0
HEAT == 1
COOL == 2
AUTO == 3
\* Characteristic.TemperatureDisplayUnits
CELSIUS == 0
FAHRENHEIT == 1
\* Characteristic.Active
INACTIVE == 0
ACTIVE == 1
\* Characteristic.TargetFanState
FAN_MANUAL == 0
FAN_AUTO == 1
\* debounceTime(100), in steps of 50ms
DebounceTicks == 2

\* the delay of the setTimeout of setTemperatureDisplayUnits, in steps
UnitsDelayTicks == 2
\* no debounce timer is armed
NoTimer == -1
\* a field that was never assigned (JavaScript undefined)
Undefined == -1000
\* the result of arithmetic on undefined
NaN == -1001

\* this.honeywellMode: the remote mode name at each index
honeywellMode == <<"Off", "Heat", "Cool", "Auto">>

\* this.modes: remote mode name -> TargetHeatingCoolingState
modes(m) ==
  CASE m = "Off" -> OFF
    [] m = "Heat" -> HEAT
    [] m = "Cool" -> COOL
    [] m = "Auto" -> AUTO
    [] OTHER -> Undefined

ThermostatChars ==
  {"TemperatureDisplayUnits", "CurrentTemperature", "CurrentRelativeHumidity",
   "TargetTemperature", "HeatingThresholdTemperature",
   "CoolingThresholdTemperature", "TargetHeatingCoolingState",
   "CurrentHeatingCoolingState"}

FanChars == {"TargetFanState", "Active"}

Chars == ThermostatChars \cup FanChars

Channels == {"thermo", "fan"}

\* who started a network call: the refresh timer, a thermostat flush, a fan flush
Kinds == {"timer", "thermo", "fan"}

\* the await a call is suspended at
TaskClasses ==
  {<<"timer", "get">>, <<"timer", "getfan">>,
   <<"thermo", "post">>, <<"thermo", "get">>, <<"thermo", "getfan">>,
   <<"fan", "post">>, <<"fan", "get">>, <<"fan", "getfan">>}

(***************************************************************************)
(* Inputs: the device resources the remote API returns and the values the  *)
(* host sets.                                                              *)
(***************************************************************************)
Deg(v) == 2 * v

Snapshot(units, temp, hum, mode, heat, cool, op, fan, minHeat, minCool, allowed) ==
  [units |-> units, indoorTemperature |-> temp, indoorHumidity |-> hum,
   mode |-> mode, heatSetpoint |-> heat, coolSetpoint |-> cool,
   opMode |-> op, fan |-> fan,
   minHeatSetpoint |-> minHeat, minCoolSetpoint |-> minCool,
   allowedModes |-> allowed]

\* a Fahrenheit device heating to 68, cooling to 72
HeatingF ==
  Snapshot("Fahrenheit", Deg(70), 40, "Heat", Deg(68), Deg(72), "Heat", TRUE,
           Deg(50), Deg(60), {"Off", "Heat", "Cool", "Auto"})

\* a Fahrenheit device in Cool mode that reports no heat setpoint, idle
CoolingF ==
  Snapshot("Fahrenheit", Deg(70), 40, "Cool", 0, Deg(72), "Off", TRUE,
           0, Deg(60), {"Off", "Heat", "Cool", "Auto"})

\* a Celsius device in Auto mode without a fan, heating
AutoC ==
  Snapshot("Celsius", Deg(21), 40, "Auto", Deg(20), Deg(22), "Heat", FALSE,
           Deg(10), Deg(15), {"Heat", "Off"})

\* the device resources GET /thermostats/{id} may return
Snapshots == {HeatingF, CoolingF, AutoC}

\* the device resources of a device with a fan: the capability flag comes and goes
FanSnapshots == {HeatingF, [HeatingF EXCEPT !.fan = FALSE]}

\* the fan resources GET /thermostats/{id}/fan may return
FanModes == {"Auto", "On", "Circulate"}

\* a Fahrenheit device in Heat mode that reports neither a heat setpoint nor a
\* minimum for it, cooling
HeatUnsetF ==
  Snapshot("Fahrenheit", Deg(70), 40, "Heat", 0, Deg(72), "Cool", TRUE,
           0, Deg(60), {"Off", "Heat", "Cool", "Auto"})

\* a Fahrenheit device switched off that reports no cool setpoint but a minimum
\* for it, the equipment off
OffUnsetF ==
  Snapshot("Fahrenheit", Deg(70), 40, "Off", Deg(68), 0, "EquipmentOff", FALSE,
           Deg(50), Deg(60), {"Off", "Heat", "Cool", "Auto"})

\* the same device in Cool mode, reporting no minimum either
CoolUnsetF ==
  Snapshot("Fahrenheit", Deg(70), 40, "Cool", Deg(68), 0, "Off", FALSE,
           Deg(50), 0, {"Off", "Heat", "Cool", "Auto"})

\* the device resources a refresh returns in SpecRefresh
RefreshSnapshots == {HeatingF, CoolingF, AutoC, HeatUnsetF, OffUnsetF, CoolUnsetF}

\* the whole Fahrenheit temperatures toCelsius is applied to
FahrenheitInputs == {Deg(f) : f \in -MaxFahrenheit..MaxFahrenheit}

\* the temperatures, in steps of half a degree, toFahrenheit is applied to
CelsiusInputs == -MaxFahrenheit..MaxFahrenheit

\* the temperatures the host sets (20 and 22 degrees Celsius)
SetTemps == {Deg(20), Deg(22)}

(***************************************************************************)
(* State.                                                                  *)
(***************************************************************************)
VARIABLES
  this,        \* the fields of the TCCthermostat object
  hide_fan,    \* platform.config.options.thermostat.hide_fan
  fanService,  \* whether this.fanService is a service
  fanControls, \* whether the fan set handlers and the doFanUpdate subscription exist
  validValues, \* the validValues of TargetHeatingCoolingState
  skipping,    \* whether skipWhile of the refresh interval is still skipping
  debounce,    \* per channel, the steps left on the debounceTime timer
  tasks,       \* the network calls in flight, counted per class
  ev,          \* what the last callback did
  sinceSet,    \* per channel, the steps since the last set (at most DebounceTicks)
  burst,       \* per channel, the flushes started since the current burst began
  ttBurst,     \* the setTargetTemperature calls that end the current burst
  unitTimers   \* the setTimeout callbacks of setTemperatureDisplayUnits not yet
               \* run, oldest first: the steps left and the value the host set

vars ==
  <<this, hide_fan, fanService, fanControls, validValues, skipping,
    debounce, tasks, ev, sinceSet, burst, ttBurst, unitTimers>>

(***************************************************************************)
(* Unit translation.                                                       *)
(***************************************************************************)
\* Math.round(n / d) for d > 0: the nearest integer, a tie going up
Round(n, d) == (2 * n + d) \div (2 * d)

\* a toCelsius that rounds to whole degrees
toCelsiusWhole(self, value) ==
  IF self.TemperatureDisplayUnits = CELSIUS THEN value
  ELSE IF value \in {Undefined, NaN} THEN NaN
  ELSE Deg(Round(5 * (value - Deg(32)), 18))

\* toCelsius: Math.round((5 / 9) * (value - 32) * 2) / 2, in half units
toCelsius(self, value) ==
  IF self.TemperatureDisplayUnits = CELSIUS THEN value
  ELSE IF value \in {Undefined, NaN} THEN NaN
  ELSE Round(5 * (value - Deg(32)), 9)

\* toFahrenheit: Math.round((value * 9) / 5 + 32), in half units
toFahrenheit(self, value) ==
  IF self.TemperatureDisplayUnits = CELSIUS THEN value
  ELSE IF value \in {Undefined, NaN} THEN NaN
  ELSE Deg(Round(9 * value + 10 * 32, 10))

(***************************************************************************)
(* The fan capability of the current snapshot, not hidden by the           *)
(* configuration: this.device.settings?.fan && !...hide_fan.               *)
(***************************************************************************)
FanEnabled(self, hide) == self.device.fan /\ ~hide

(***************************************************************************)
(* parseStatus: Characteristic State recomputed from this.device and       *)
(* this.deviceFan.                                                         *)
(***************************************************************************)
parseUnits(self) ==
  [self EXCEPT !.TemperatureDisplayUnits =
     IF self.device.units = "Fahrenheit" THEN FAHRENHEIT
     ELSE IF self.device.units = "Celsius" THEN CELSIUS
     ELSE @]

parseReadings(self) ==
  [self EXCEPT !.CurrentTemperature = toCelsius(self, self.device.indoorTemperature),
               !.CurrentRelativeHumidity = self.device.indoorHumidity]

\* a recompute that takes every setpoint, also one that is not positive
parseThresholdsUnguarded(self) ==
  [self EXCEPT
     !.HeatingThresholdTemperature = toCelsius(self, self.device.heatSetpoint),
     !.CoolingThresholdTemperature = toCelsius(self, self.device.coolSetpoint)]

parseThresholds(self) ==
  [self EXCEPT
     !.HeatingThresholdTemperature =
        IF self.device.heatSetpoint > 0
        THEN toCelsius(self, self.device.heatSetpoint) ELSE @,
     !.CoolingThresholdTemperature =
        IF self.device.coolSetpoint > 0
        THEN toCelsius(self, self.device.coolSetpoint) ELSE @]

\* a recompute that leaves the target state alone while a host edit is pending
parseStatesKeepPending(self) ==
  [self EXCEPT
     !.TargetHeatingCoolingState =
        IF self.thermostatUpdateInProgress THEN @ ELSE modes(self.device.mode),
     !.CurrentHeatingCoolingState =
        CASE self.device.opMode = "Heat" -> 1
          [] self.device.opMode = "Cool" -> 2
          [] OTHER -> 0]

parseStates(self) ==
  [self EXCEPT
     !.TargetHeatingCoolingState = modes(self.device.mode),
     !.CurrentHeatingCoolingState =
        CASE self.device.opMode = "Heat" -> 1
          [] self.device.opMode = "Cool" -> 2
          [] OTHER -> 0]

\* a recompute that picks the setpoint by what the device is doing
parseTargetTemperatureByCurrent(self) ==
  [self EXCEPT !.TargetTemperature =
     IF self.CurrentHeatingCoolingState = 1
     THEN IF self.device.heatSetpoint > 0 \/ self.device.minHeatSetpoint # 0
          THEN toCelsius(self, self.device.heatSetpoint) ELSE @
     ELSE IF self.device.coolSetpoint > 0 \/ self.device.minCoolSetpoint # 0
          THEN toCelsius(self, self.device.coolSetpoint) ELSE @]

parseTargetTemperature(self) ==
  [self EXCEPT !.TargetTemperature =
     IF self.TargetHeatingCoolingState = HEAT
     THEN IF self.device.heatSetpoint > 0 \/ self.device.minHeatSetpoint # 0
          THEN toCelsius(self, self.device.heatSetpoint) ELSE @
     ELSE IF self.device.coolSetpoint > 0 \/ self.device.minCoolSetpoint # 0
          THEN toCelsius(self, self.device.coolSetpoint) ELSE @]

parseFan(self, hide) ==
  IF FanEnabled(self, hide) /\ self.deviceFan # "none"
  THEN CASE self.deviceFan = "Auto" ->
              [self EXCEPT !.TargetFanState = FAN_AUTO, !.Active = INACTIVE]
         [] self.deviceFan = "On" ->
              [self EXCEPT !.TargetFanState = FAN_MANUAL, !.Active = ACTIVE]
         [] self.deviceFan = "Circulate" ->
              [self EXCEPT !.TargetFanState = FAN_MANUAL, !.Active = INACTIVE]
         [] OTHER -> self
  ELSE self

parseStatus(self, hide) ==
  parseFan(parseTargetTemperature(parseStates(parseThresholds(
    parseReadings(parseUnits(self))))), hide)

(***************************************************************************)
(* Publishing to the host.  updateHomeKitCharacteristics publishes, for    *)
(* each characteristic it reaches, the value of the field of that name;    *)
(* apiError publishes the error e to each of them.                         *)
(***************************************************************************)
\* the characteristics a broadcast reaches
Broadcast(self, hide, service) ==
  ThermostatChars \cup (IF FanEnabled(self, hide) /\ service THEN FanChars ELSE {})

updateHomeKitCharacteristics(self, hide, service) == Broadcast(self, hide, service)

\* an apiError that leaves the fan characteristics out
apiErrorThermostatOnly(self, hide, service) == ThermostatChars

apiError(self, hide, service) == Broadcast(self, hide, service)

(***************************************************************************)
(* TargetState: the valid target states, in the order they are pushed.     *)
(***************************************************************************)
\* a TargetState in the order of the values: Off, Heat, Cool, Auto
TargetStateByValue(allowedModes) ==
  (IF "Off" \in allowedModes THEN <<OFF>> ELSE <<>>) \o
  (IF "Heat" \in allowedModes THEN <<HEAT>> ELSE <<>>) \o
  (IF "Cool" \in allowedModes THEN <<COOL>> ELSE <<>>) \o
  (IF "Auto" \in allowedModes THEN <<AUTO>> ELSE <<>>)

TargetState(allowedModes) ==
  (IF "Cool" \in allowedModes THEN <<COOL>> ELSE <<>>) \o
  (IF "Heat" \in allowedModes THEN <<HEAT>> ELSE <<>>) \o
  (IF "Off" \in allowedModes THEN <<OFF>> ELSE <<>>) \o
  (IF "Auto" \in allowedModes THEN <<AUTO>> ELSE <<>>)

(***************************************************************************)
(* The network calls in flight.                                            *)
(***************************************************************************)
NumTasks ==
  tasks[<<"timer", "get">>] + tasks[<<"timer", "getfan">>]
  + tasks[<<"thermo", "post">>] + tasks[<<"thermo", "get">>] + tasks[<<"thermo", "getfan">>]
  + tasks[<<"fan", "post">>] + tasks[<<"fan", "get">>] + tasks[<<"fan", "getfan">>]

Started(t, c) == [t EXCEPT ![c] = @ + 1]

Ended(t, c) == [t EXCEPT ![c] = @ - 1]

Moved(t, from, to) == Started(Ended(t, from), to)

(***************************************************************************)
(* What the last callback did, for the properties to read:                 *)
(*   op, kind   the callback, and the channel or the starter of the call   *)
(*   write      the payload of the write it issued                         *)
(*   refresh    whether it called refreshStatus                            *)
(*   token      whether it called platform.refreshAccessToken              *)
(*   updated    the characteristics it published the value of              *)
(*   errors     the characteristics it published the error marker to       *)
(*   ack        whether it called callback(null)                           *)
(*   dropped    whether skipWhile dropped the tick                         *)
(*   joined     for a set, whether it came less than 100ms after the set    *)
(*              before it on the channel                                   *)
(*   tt         for a thermostat flush, the setTargetTemperature calls that *)
(*              ended the burst it flushes                                 *)
(*   units      for the timer of setTemperatureDisplayUnits, the display   *)
(*              unit it published                                          *)
(***************************************************************************)
NoWrite == [kind |-> "none"]

NoCalls == [n |-> 0, v |-> 0]

Quiet(op, kind) ==
  [op |-> op, kind |-> kind, write |-> NoWrite, refresh |-> FALSE,
   token |-> FALSE, updated |-> {}, errors |-> {}, ack |-> FALSE,
   dropped |-> FALSE, joined |-> FALSE, tt |-> NoCalls, units |-> Undefined]

(***************************************************************************)
(* The constructor.                                                        *)
(***************************************************************************)
Blank(d) ==
  [device |-> d, deviceFan |-> "none",
   CurrentTemperature |-> Undefined, TargetTemperature |-> Undefined,
   CurrentHeatingCoolingState |-> Undefined,
   TargetHeatingCoolingState |-> Undefined,
   CoolingThresholdTemperature |-> Undefined,
   HeatingThresholdTemperature |-> Undefined,
   CurrentRelativeHumidity |-> Undefined,
   TemperatureDisplayUnits |-> Undefined,
   Active |-> INACTIVE, TargetFanState |-> FAN_MANUAL,
   thermostatUpdateInProgress |-> FALSE, fanUpdateInProgress |-> FALSE]

NoBurst == [begun |-> FALSE, flushes |-> 0]

\* this.fanService after the constructor: created with the fan controls, removed
\* when the fan is hidden, else whatever the accessory had (cached)
FanServiceAfter(d, hide, cached) ==
  IF d.fan /\ ~hide THEN TRUE ELSE IF hide THEN FALSE ELSE cached

Constructed(d, hide, cached) ==
    /\ hide_fan = hide
    /\ this = parseStatus(Blank(d), hide)
    /\ fanControls = (d.fan /\ ~hide)
    /\ fanService = FanServiceAfter(d, hide, cached)
    /\ validValues = TargetState(d.allowedModes)
    /\ skipping = TRUE
    /\ debounce = [ch \in Channels |-> NoTimer]
    /\ tasks = [c \in TaskClasses |-> 0]
    /\ ev = [Quiet("constructor", "") EXCEPT
               !.updated = updateHomeKitCharacteristics(
                              parseStatus(Blank(d), hide), hide,
                              FanServiceAfter(d, hide, cached))]
    /\ sinceSet = [ch \in Channels |-> DebounceTicks]
    /\ burst = [ch \in Channels |-> NoBurst]
    /\ ttBurst = NoCalls
    /\ unitTimers = <<>>

config == <<hide_fan, fanService, fanControls, validValues>>

(***************************************************************************)
(* The refresh timer: interval(refreshRate * 1000) through skipWhile.      *)
(***************************************************************************)
\* a guard that holds the tick back while either channel is in progress
skipWhileEitherFlag(skip, pred) ==
  skip /\ (pred \/ this.fanUpdateInProgress)

\* whether skipWhile, skipping so far or not, drops a value while pred holds
skipWhile(skip, pred) == skip /\ pred

IntervalTick ==
  /\ IF skipWhile(skipping, this.thermostatUpdateInProgress)
     THEN /\ UNCHANGED <<skipping, tasks>>
          /\ ev' = [Quiet("IntervalTick", "timer") EXCEPT !.dropped = TRUE]
     ELSE /\ NumTasks < MaxTasks
          /\ skipping' = FALSE
          /\ tasks' = Started(tasks, <<"timer", "get">>)
          /\ ev' = [Quiet("IntervalTick", "timer") EXCEPT !.refresh = TRUE]
  /\ UNCHANGED <<this, config, unitTimers, debounce, sinceSet, burst, ttBurst>>

(***************************************************************************)
(* The pending-change channels: Subject.next through tap and debounceTime. *)
(***************************************************************************)
\* tap: the in-progress flag of the channel is raised
tap(self, ch) ==
  IF ch = "thermo" THEN [self EXCEPT !.thermostatUpdateInProgress = TRUE]
  ELSE [self EXCEPT !.fanUpdateInProgress = TRUE]

\* a debounce that leaves an armed timer running instead of restarting it
debounceKeep(timer) == IF timer # NoTimer THEN timer ELSE DebounceTicks

\* debounceTime(100): the timer a value finds is cancelled and a new one armed
debounceTime(timer) == DebounceTicks

\* doThermostatUpdate.next() / doFanUpdate.next(), and the history of the burst;
\* a timer callback that is due runs before a set of the same instant
next(ch) ==
  /\ debounce[ch] # 0
  /\ debounce' = [debounce EXCEPT ![ch] = debounceTime(@)]
  /\ sinceSet' = [sinceSet EXCEPT ![ch] = 0]
  /\ burst' = [burst EXCEPT ![ch] =
                 IF sinceSet[ch] >= DebounceTicks
                 THEN [begun |-> TRUE, flushes |-> 0] ELSE @]

\* a handler that holds its callback back while a request is in flight
AckedWhenIdle(op, ch) ==
  [Quiet(op, ch) EXCEPT !.ack = (NumTasks = 0), !.joined = sinceSet[ch] < DebounceTicks]

Acked(op, ch) ==
  [Quiet(op, ch) EXCEPT !.ack = TRUE, !.joined = sinceSet[ch] < DebounceTicks]

\* a handler that picks the setpoint by the target state it replaces
setTargetHeatingCoolingStateStale(value) ==
  /\ next("thermo")
  /\ this' = tap([this EXCEPT
                    !.TargetHeatingCoolingState = value,
                    !.TargetTemperature =
                       IF this.TargetHeatingCoolingState = HEAT
                       THEN toCelsius(this, this.device.heatSetpoint)
                       ELSE toCelsius(this, this.device.coolSetpoint)], "thermo")
  /\ ev' = [Acked("setTargetHeatingCoolingState", "thermo") EXCEPT
              !.updated = {"TargetTemperature"}]
  /\ ttBurst' = NoCalls
  /\ UNCHANGED <<config, unitTimers, skipping, tasks>>

setTargetHeatingCoolingState(value) ==
  /\ next("thermo")
  /\ this' = tap([this EXCEPT
                    !.TargetHeatingCoolingState = value,
                    !.TargetTemperature =
                       IF value = HEAT
                       THEN toCelsius(this, this.device.heatSetpoint)
                       ELSE toCelsius(this, this.device.coolSetpoint)], "thermo")
  /\ ev' = [Acked("setTargetHeatingCoolingState", "thermo") EXCEPT
              !.updated = {"TargetTemperature"}]
  /\ ttBurst' = NoCalls
  /\ UNCHANGED <<config, unitTimers, skipping, tasks>>

setHeatingThresholdTemperature(value) ==
  /\ next("thermo")
  /\ this' = tap([this EXCEPT !.HeatingThresholdTemperature = value], "thermo")
  /\ ev' = Acked("setHeatingThresholdTemperature", "thermo")
  /\ ttBurst' = NoCalls
  /\ UNCHANGED <<config, unitTimers, skipping, tasks>>

setCoolingThresholdTemperature(value) ==
  /\ next("thermo")
  /\ this' = tap([this EXCEPT !.CoolingThresholdTemperature = value], "thermo")
  /\ ev' = Acked("setCoolingThresholdTemperature", "thermo")
  /\ ttBurst' = NoCalls
  /\ UNCHANGED <<config, unitTimers, skipping, tasks>>

\* a handler that moves the heating threshold along with the target temperature
setTargetTemperatureAndThreshold(value) ==
  /\ next("thermo")
  /\ this' = tap([this EXCEPT !.TargetTemperature = value,
                              !.HeatingThresholdTemperature = value], "thermo")
  /\ ev' = Acked("setTargetTemperature", "thermo")
  /\ ttBurst' = [n |-> IF ttBurst.n >= 1 /\ sinceSet["thermo"] <= 1 THEN 2 ELSE 1,
                 v |-> value]
  /\ UNCHANGED <<config, unitTimers, skipping, tasks>>

\* ttBurst counts this call as the second when the call before it on the
\* channel was a setTargetTemperature at most 50ms ago
setTargetTemperature(value) ==
  /\ next("thermo")
  /\ this' = tap([this EXCEPT !.TargetTemperature = value], "thermo")
  /\ ev' = Acked("setTargetTemperature", "thermo")
  /\ ttBurst' = [n |-> IF ttBurst.n >= 1 /\ sinceSet["thermo"] <= 1 THEN 2 ELSE 1,
                 v |-> value]
  /\ UNCHANGED <<config, unitTimers, skipping, tasks>>

\* setTemperatureDisplayUnits: nothing but a setTimeout(100) and callback(null)
setTemperatureDisplayUnits(value) ==
  /\ Len(unitTimers) < MaxUnitTimers
  /\ unitTimers' = Append(unitTimers, [left |-> UnitsDelayTicks, v |-> value])
  /\ ev' = [Quiet("setTemperatureDisplayUnits", "") EXCEPT !.ack = TRUE]
  /\ UNCHANGED <<this, config, skipping, debounce, tasks, sinceSet, burst, ttBurst>>

\* a timer that publishes the value the host set
RepublishedRequested(self, timer) == timer.v

\* the value the setTimeout callback publishes: the field when it runs
Republished(self, timer) == self.TemperatureDisplayUnits

\* the setTimeout callback of setTemperatureDisplayUnits, the oldest first
UnitsTimeout ==
  /\ unitTimers # <<>>
  /\ Head(unitTimers).left = 0
  /\ unitTimers' = Tail(unitTimers)
  /\ ev' = [Quiet("UnitsTimeout", "") EXCEPT
              !.updated = {"TemperatureDisplayUnits"},
              !.units = Republished(this, Head(unitTimers))]
  /\ UNCHANGED <<this, config, skipping, debounce, tasks, sinceSet, burst, ttBurst>>

setActive(value) ==
  /\ fanControls
  /\ next("fan")
  /\ this' = tap([this EXCEPT !.Active = value], "fan")
  /\ ev' = Acked("setActive", "fan")
  /\ UNCHANGED <<config, unitTimers, skipping, tasks, ttBurst>>

setTargetFanState(value) ==
  /\ fanControls
  /\ next("fan")
  /\ this' = tap([this EXCEPT !.TargetFanState = value], "fan")
  /\ ev' = Acked("setTargetFanState", "fan")
  /\ UNCHANGED <<config, unitTimers, skipping, tasks, ttBurst>>

(***************************************************************************)
(* The end of a flush: the subscriber clears the flag of its channel.  The *)
(* refresh timer's own refresh cycles clear nothing.                       *)
(***************************************************************************)
\* a subscriber that leaves the flag of its channel raised
FlagKept(self, kind) == self

Finished(self, kind) ==
  CASE kind = "thermo" -> [self EXCEPT !.thermostatUpdateInProgress = FALSE]
    [] kind = "fan" -> [self EXCEPT !.fanUpdateInProgress = FALSE]
    [] OTHER -> self

\* the history of a burst when a flush of it starts
Flushed(b) == [b EXCEPT !.flushes = IF @ < 2 THEN @ + 1 ELSE @]

(***************************************************************************)
(* pushChanges, to its first await.                                        *)
(***************************************************************************)
\* a diff check that compares the thresholds only
DiffersThresholds(self) ==
  \/ self.HeatingThresholdTemperature # toCelsius(self, self.device.heatSetpoint)
  \/ self.CoolingThresholdTemperature # toCelsius(self, self.device.coolSetpoint)

\* the diff check of pushChanges
Differs(self) ==
  \/ self.HeatingThresholdTemperature # toCelsius(self, self.device.heatSetpoint)
  \/ self.CoolingThresholdTemperature # toCelsius(self, self.device.coolSetpoint)
  \/ self.TargetHeatingCoolingState # modes(self.device.mode)

\* a payload that takes TargetTemperature as the cool setpoint in Heat mode and
\* as the heat setpoint in Cool mode
PayloadSwapped(self) ==
  [kind |-> "thermostat",
   mode |-> honeywellMode[self.TargetHeatingCoolingState + 1],
   heatSetpoint |->
     IF self.TargetHeatingCoolingState = COOL
     THEN toFahrenheit(self, self.TargetTemperature)
     ELSE toFahrenheit(self, self.HeatingThresholdTemperature),
   coolSetpoint |->
     IF self.TargetHeatingCoolingState = HEAT
     THEN toFahrenheit(self, self.TargetTemperature)
     ELSE toFahrenheit(self, self.CoolingThresholdTemperature)]

\* the payload of POST /thermostats/{id} (thermostatSetpointStatus, a value of
\* the configuration, is left out)
ThermostatPayload(self) ==
  [kind |-> "thermostat",
   mode |-> honeywellMode[self.TargetHeatingCoolingState + 1],
   heatSetpoint |->
     IF self.TargetHeatingCoolingState = HEAT
     THEN toFahrenheit(self, self.TargetTemperature)
     ELSE toFahrenheit(self, self.HeatingThresholdTemperature),
   coolSetpoint |->
     IF self.TargetHeatingCoolingState = COOL
     THEN toFahrenheit(self, self.TargetTemperature)
     ELSE toFahrenheit(self, self.CoolingThresholdTemperature)]

\* the debounce timer of the thermostat channel expires: the subscriber runs
ThermostatFlush ==
  /\ debounce["thermo"] = 0
  /\ debounce' = [debounce EXCEPT !["thermo"] = NoTimer]
  /\ burst' = [burst EXCEPT !["thermo"] = Flushed(@)]
  /\ ttBurst' = NoCalls
  /\ IF Differs(this)
     THEN /\ NumTasks < MaxTasks
          /\ tasks' = Started(tasks, <<"thermo", "post">>)
          /\ ev' = [Quiet("ThermostatFlush", "thermo") EXCEPT
                      !.write = ThermostatPayload(this), !.tt = ttBurst]
          /\ UNCHANGED this
     ELSE /\ this' = Finished(this, "thermo")
          /\ ev' = [Quiet("ThermostatFlush", "thermo") EXCEPT !.tt = ttBurst]
          /\ UNCHANGED tasks
  /\ UNCHANGED <<config, unitTimers, skipping, sinceSet>>

(***************************************************************************)
(* pushFanChanges, to its first await.                                     *)
(***************************************************************************)
\* a fan payload with On and Circulate exchanged
FanPayloadSwapped(self) ==
  [kind |-> "fan",
   mode |->
     IF self.TargetFanState = FAN_AUTO THEN "Auto"
     ELSE IF self.TargetFanState = FAN_MANUAL /\ self.Active = ACTIVE THEN "Circulate"
     ELSE IF self.TargetFanState = FAN_MANUAL /\ self.Active = INACTIVE THEN "On"
     ELSE "Auto"]

FanPayload(self) ==
  [kind |-> "fan",
   mode |->
     IF self.TargetFanState = FAN_AUTO THEN "Auto"
     ELSE IF self.TargetFanState = FAN_MANUAL /\ self.Active = ACTIVE THEN "On"
     ELSE IF self.TargetFanState = FAN_MANUAL /\ self.Active = INACTIVE THEN "Circulate"
     ELSE "Auto"]

\* the debounce timer of the fan channel expires: the subscriber runs
FanFlush ==
  /\ debounce["fan"] = 0
  /\ NumTasks < MaxTasks
  /\ debounce' = [debounce EXCEPT !["fan"] = NoTimer]
  /\ burst' = [burst EXCEPT !["fan"] = Flushed(@)]
  /\ IF FanEnabled(this, hide_fan)
     THEN /\ tasks' = Started(tasks, <<"fan", "post">>)
          /\ ev' = [Quiet("FanFlush", "fan") EXCEPT !.write = FanPayload(this)]
     ELSE /\ tasks' = Started(tasks, <<"fan", "get">>)
          /\ ev' = [Quiet("FanFlush", "fan") EXCEPT !.refresh = TRUE]
  /\ UNCHANGED <<this, config, unitTimers, skipping, sinceSet, ttBurst>>

(***************************************************************************)
(* The answers of the remote API.                                          *)
(***************************************************************************)
\* a flush that ends after its write without refreshing
PostOkNoRefresh(kind) ==
  /\ tasks[<<kind, "post">>] > 0
  /\ tasks' = Ended(tasks, <<kind, "post">>)
  /\ this' = Finished(this, kind)
  /\ ev' = Quiet("PostOk", kind)
  /\ UNCHANGED <<config, unitTimers, skipping, debounce, sinceSet, burst, ttBurst>>

\* a write succeeded: pushChanges / pushFanChanges goes on to refreshStatus
PostOk(kind) ==
  /\ tasks[<<kind, "post">>] > 0
  /\ tasks' = Moved(tasks, <<kind, "post">>, <<kind, "get">>)
  /\ ev' = [Quiet("PostOk", kind) EXCEPT !.refresh = TRUE]
  /\ UNCHANGED <<this, config, unitTimers, skipping, debounce, sinceSet, burst, ttBurst>>

\* what the catch of a subscriber does with a failed write
PushCatch(op, kind) ==
  [Quiet(op, kind) EXCEPT !.errors = apiError(this, hide_fan, fanService)]

\* a write failed: the catch of the subscriber
PostFail(kind) ==
  /\ tasks[<<kind, "post">>] > 0
  /\ tasks' = Ended(tasks, <<kind, "post">>)
  /\ this' = Finished(this, kind)
  /\ ev' = PushCatch("PostFail", kind)
  /\ UNCHANGED <<config, unitTimers, skipping, debounce, sinceSet, burst, ttBurst>>

\* the device fetch of refreshStatus succeeded
GetOk(kind, d) ==
  /\ tasks[<<kind, "get">>] > 0
  /\ IF FanEnabled([this EXCEPT !.device = d], hide_fan)
     THEN /\ this' = [this EXCEPT !.device = d]
          /\ tasks' = Moved(tasks, <<kind, "get">>, <<kind, "getfan">>)
          /\ ev' = Quiet("GetOk", kind)
     ELSE /\ this' = Finished(parseStatus([this EXCEPT !.device = d], hide_fan), kind)
          /\ tasks' = Ended(tasks, <<kind, "get">>)
          /\ ev' = [Quiet("Refreshed", kind) EXCEPT
                      !.updated = updateHomeKitCharacteristics(this', hide_fan, fanService)]
  /\ UNCHANGED <<config, unitTimers, skipping, debounce, sinceSet, burst, ttBurst>>

\* the fan fetch of refreshStatus succeeded
FanGetOk(kind, f) ==
  /\ tasks[<<kind, "getfan">>] > 0
  /\ this' = Finished(parseStatus([this EXCEPT !.deviceFan = f], hide_fan), kind)
  /\ tasks' = Ended(tasks, <<kind, "getfan">>)
  /\ ev' = [Quiet("Refreshed", kind) EXCEPT
              !.updated = updateHomeKitCharacteristics(this', hide_fan, fanService)]
  /\ UNCHANGED <<config, unitTimers, skipping, debounce, sinceSet, burst, ttBurst>>

\* what the catch of refreshStatus does
RefreshCatch(op, kind) ==
  [Quiet(op, kind) EXCEPT !.token = TRUE,
                          !.errors = apiError(this, hide_fan, fanService)]

\* a fetch of refreshStatus failed: the catch of refreshStatus
GetFail(kind, pc) ==
  /\ tasks[<<kind, pc>>] > 0
  /\ tasks' = Ended(tasks, <<kind, pc>>)
  /\ this' = Finished(this, kind)
  /\ ev' = RefreshCatch(IF pc = "get" THEN "GetFail" ELSE "FanGetFail", kind)
  /\ UNCHANGED <<config, unitTimers, skipping, debounce, sinceSet, burst, ttBurst>>

(***************************************************************************)
(* Time: 50ms pass while a debounce window is open.  No timer callback is  *)
(* due.                                                                    *)
(***************************************************************************)
Tick ==
  /\ \A ch \in Channels : debounce[ch] # 0
  /\ \A i \in 1..Len(unitTimers) : unitTimers[i].left # 0
  /\ \/ \E ch \in Channels : debounce[ch] > 0 \/ sinceSet[ch] < DebounceTicks
     \/ unitTimers # <<>>
  /\ unitTimers' = [i \in 1..Len(unitTimers) |->
                      [unitTimers[i] EXCEPT !.left = @ - 1]]
  /\ debounce' = [ch \in Channels |-> IF debounce[ch] > 0 THEN debounce[ch] - 1 ELSE debounce[ch]]
  /\ sinceSet' = [ch \in Channels |->
                    IF sinceSet[ch] < DebounceTicks THEN sinceSet[ch] + 1 ELSE sinceSet[ch]]
  /\ ev' = Quiet("Tick", "")
  /\ UNCHANGED <<this, config, skipping, tasks, burst, ttBurst>>

(***************************************************************************)
(* Spec: a device whose fan is hidden; the host sets the thermostat        *)
(* characteristics.                                                        *)
(***************************************************************************)
Init == \E d \in Snapshots : Constructed(d, TRUE, FALSE)

Next ==
  \/ IntervalTick
  \/ \E value \in 0..3 :
       /\ \E i \in 1..Len(validValues) : validValues[i] = value
       /\ setTargetHeatingCoolingState(value)
  \/ \E value \in SetTemps : setHeatingThresholdTemperature(value)
  \/ \E value \in SetTemps : setCoolingThresholdTemperature(value)
  \/ \E value \in SetTemps : setTargetTemperature(value)
  \/ ThermostatFlush
  \/ PostOk("thermo")
  \/ PostFail("thermo")
  \/ \E kind \in {"timer", "thermo"}, d \in Snapshots : GetOk(kind, d)
  \/ \E kind \in {"timer", "thermo"} : GetFail(kind, "get")
  \/ Tick

Spec == Init /\ [][Next]_vars

(***************************************************************************)
(* SpecFan: a device with a fan; the host sets the fan characteristics and *)
(* the heating threshold, and the refresh timer has not yet fired.         *)
(***************************************************************************)
InitFan == Constructed(HeatingF, FALSE, FALSE)

NextFan ==
  \/ \E value \in {INACTIVE, ACTIVE} : setActive(value)
  \/ \E value \in {FAN_MANUAL, FAN_AUTO} : setTargetFanState(value)
  \/ setHeatingThresholdTemperature(Deg(21))
  \/ ThermostatFlush
  \/ FanFlush
  \/ \E kind \in {"thermo", "fan"} : PostOk(kind)
  \/ \E kind \in {"thermo", "fan"} : PostFail(kind)
  \/ \E kind \in {"thermo", "fan"}, d \in FanSnapshots : GetOk(kind, d)
  \/ \E kind \in {"thermo", "fan"}, f \in FanModes : FanGetOk(kind, f)
  \/ \E kind \in {"thermo", "fan"}, pc \in {"get", "getfan"} : GetFail(kind, pc)
  \/ Tick

SpecFan == InitFan /\ [][NextFan]_vars

(***************************************************************************)
(* SpecHost: every set handler, with one value each.  The host sets the    *)
(* display units and the target temperature of every accessory, the fan    *)
(* characteristics where the accessory has a fan service, and the target   *)
(* state and the thresholds where the fan is hidden.  The refresh timer    *)
(* has not yet fired.                                                      *)
(***************************************************************************)
InitHost == \E hide \in BOOLEAN : Constructed(HeatingF, hide, FALSE)

NextHost ==
  \/ ~fanControls /\ setTargetHeatingCoolingState(COOL)
  \/ ~fanControls /\ setHeatingThresholdTemperature(Deg(21))
  \/ ~fanControls /\ setCoolingThresholdTemperature(Deg(23))
  \/ setTargetTemperature(Deg(22))
  \/ setTemperatureDisplayUnits(CELSIUS)
  \/ setActive(ACTIVE)
  \/ setTargetFanState(FAN_AUTO)
  \/ UnitsTimeout
  \/ ThermostatFlush
  \/ FanFlush
  \/ \E kind \in {"thermo", "fan"} : PostOk(kind)
  \/ \E kind \in {"thermo", "fan"} : PostFail(kind)
  \/ \E kind \in {"thermo", "fan"} : GetOk(kind, HeatingF)
  \/ FanGetOk("fan", "Auto")
  \/ \E kind \in {"thermo", "fan"} : GetFail(kind, "get")
  \/ GetFail("fan", "getfan")
  \/ Tick

SpecHost == InitHost /\ [][NextHost]_vars

(***************************************************************************)
(* SpecRefresh: an accessory without fan controls (the device reported no  *)
(* fan at construction, or the fan is hidden) with or without a fan        *)
(* service left from an earlier run; refreshes return devices with and     *)
(* without a fan and with setpoints unset; the host sets the target        *)
(* temperature.                                                            *)
(***************************************************************************)
InitRefresh ==
  \E d \in {HeatingF, [HeatingF EXCEPT !.fan = FALSE]}, hide \in BOOLEAN,
     cached \in BOOLEAN :
    /\ ~(d.fan /\ ~hide)
    /\ Constructed(d, hide, cached)

NextRefresh ==
  \/ IntervalTick
  \/ setTargetTemperature(Deg(21))
  \/ ThermostatFlush
  \/ PostOk("thermo")
  \/ PostFail("thermo")
  \/ \E kind \in {"timer", "thermo"}, d \in RefreshSnapshots : GetOk(kind, d)
  \/ \E kind \in {"timer", "thermo"} : FanGetOk(kind, "On")
  \/ \E kind \in {"timer", "thermo"}, pc \in {"get", "getfan"} : GetFail(kind, pc)
  \/ Tick

SpecRefresh == InitRefresh /\ [][NextRefresh]_vars

(***************************************************************************)
(* SpecFanTimer: a device with a fan and the refresh timer running; the    *)
(* host sets the fan characteristics, and refreshes return the device      *)
(* heating or, its heat setpoint unset, cooling.                           *)
(***************************************************************************)
InitFanTimer == Constructed(HeatingF, FALSE, FALSE)

NextFanTimer ==
  \/ IntervalTick
  \/ setActive(ACTIVE)
  \/ setTargetFanState(FAN_AUTO)
  \/ FanFlush
  \/ PostOk("fan")
  \/ PostFail("fan")
  \/ \E kind \in {"timer", "fan"}, d \in {HeatingF, HeatUnsetF} : GetOk(kind, d)
  \/ \E kind \in {"timer", "fan"}, f \in FanModes : FanGetOk(kind, f)
  \/ \E kind \in {"timer", "fan"}, pc \in {"get", "getfan"} : GetFail(kind, pc)
  \/ Tick

SpecFanTimer == InitFanTimer /\ [][NextFanTimer]_vars

(***************************************************************************)
(* SpecPure: the functions of the object applied to bounded inputs, on a   *)
(* Fahrenheit and on a Celsius device; ev holds the call and its result.   *)
(***************************************************************************)
InitPure == \E d \in {HeatingF, AutoC} : Constructed(d, TRUE, FALSE)

TargetStateCall ==
  /\ \E allowed \in SUBSET {"Off", "Heat", "Cool", "Auto"} :
       ev' = [op |-> "TargetState", allowedModes |-> allowed,
              result |-> TargetState(allowed)]
  /\ UNCHANGED <<this, config, unitTimers, skipping, debounce, tasks, sinceSet,
                 burst, ttBurst>>

toCelsiusCall ==
  /\ \E value \in FahrenheitInputs :
       ev' = [op |-> "toCelsius", value |-> value,
              result |-> toCelsius(this, value)]
  /\ UNCHANGED <<this, config, unitTimers, skipping, debounce, tasks, sinceSet,
                 burst, ttBurst>>

toFahrenheitCall ==
  /\ \E value \in CelsiusInputs :
       ev' = [op |-> "toFahrenheit", value |-> value,
              result |-> toFahrenheit(this, value)]
  /\ UNCHANGED <<this, config, unitTimers, skipping, debounce, tasks, sinceSet,
                 burst, ttBurst>>

NextPure == TargetStateCall \/ toCelsiusCall \/ toFahrenheitCall

SpecPure == InitPure /\ [][NextPure]_vars

(***************************************************************************)
(* Properties.                                                             *)
(***************************************************************************)
Failures == {"PostFail", "GetFail", "FanGetFail"}

Flushes == {"ThermostatFlush", "FanFlush"}

\* C1: a tick of the refresh timer that arrives while
\* thermostatUpdateInProgress is true is dropped and calls no refreshStatus.
C1_TickDroppedDuringPush ==
  (ev.op = "IntervalTick" /\ this.thermostatUpdateInProgress)
    => (ev.dropped /\ ~ev.refresh)

\* C2: on each channel a burst of sets, each less than 100ms after the one
\* before, starts exactly one flush, and only once 100ms have passed without a
\* set: while the window is open a flush is due 100ms after the last set and
\* none has started; once it is closed exactly one has.
C2_OneFlushPerBurst ==
  \A ch \in Channels :
    /\ burst[ch].flushes <= 1
    /\ sinceSet[ch] < DebounceTicks => debounce[ch] = DebounceTicks - sinceSet[ch]
    /\ burst[ch].begun =>
         burst[ch].flushes = (IF debounce[ch] # NoTimer THEN 0 ELSE 1)
    /\ (ev.op \in Flushes /\ ev.kind = ch) => sinceSet[ch] = DebounceTicks

\* a fan set has joined a burst: the timer is armed anew and no flush has started
C2_Witness ==
  /\ ev.op = "setActive"
  /\ ev.joined
  /\ debounce["fan"] = DebounceTicks
  /\ burst["fan"].flushes = 0

\* C3: two setTargetTemperature calls within 50ms of each other result in one
\* thermostat write, which carries the value of the second call as the setpoint
\* of the target state (stated for Heat and Cool, where the target temperature
\* is the setpoint, and for a second value the snapshot does not already have).
C3_TwoSetsOneWrite ==
  /\ ( /\ ev.op = "ThermostatFlush"
       /\ ev.tt.n = 2
       /\ this.TargetHeatingCoolingState = HEAT
       /\ toFahrenheit(this, ev.tt.v) # this.device.heatSetpoint )
     => ( /\ ev.write.kind = "thermostat"
          /\ ev.write.heatSetpoint = toFahrenheit(this, ev.tt.v) )
  /\ ( /\ ev.op = "ThermostatFlush"
       /\ ev.tt.n = 2
       /\ this.TargetHeatingCoolingState = COOL
       /\ toFahrenheit(this, ev.tt.v) # this.device.coolSetpoint )
     => ( /\ ev.write.kind = "thermostat"
          /\ ev.write.coolSetpoint = toFahrenheit(this, ev.tt.v) )

\* C4: when a flush ends in a failure (of its write or of its refresh) the
\* in-progress flag of its channel is cleared.
C4_FlagClearedAfterFailure ==
  ev.op \in Failures =>
    /\ ev.kind = "thermo" => ~this.thermostatUpdateInProgress
    /\ ev.kind = "fan" => ~this.fanUpdateInProgress

\* the write of a fan flush failed and the fan flag is clear
C4_Witness ==
  /\ ev.op = "PostFail"
  /\ ev.kind = "fan"
  /\ ~this.fanUpdateInProgress

\* C5: on every refresh or push failure the error marker is published to
\* every thermostat characteristic and, when the fan is enabled, to both fan
\* characteristics.
C5_AllMarked ==
  ev.op \in Failures =>
    /\ ThermostatChars \subseteq ev.errors
    /\ (FanEnabled(this, hide_fan) /\ fanService) => FanChars \subseteq ev.errors
    /\ ev.updated = {}

\* a fan fetch failed on a device with the fan enabled
C5_Witness ==
  /\ ev.op = "FanGetFail"
  /\ FanEnabled(this, hide_fan)
  /\ ev.errors = Chars

\* C6: platform.refreshAccessToken is called on every failed fetch and on
\* every failed write.
C6_TokenOnEveryFailure == ev.op \in Failures => ev.token

\* C7: a thermostat flush issues a write if and only if a threshold differs
\* from the normalized setpoint of the snapshot or the target state from the
\* mode of the snapshot; otherwise it issues no request.
C7_WriteIffDiffers ==
  ev.op = "ThermostatFlush" =>
    /\ ev.write.kind = "thermostat" <=>
         \/ this.HeatingThresholdTemperature
              # toCelsius(this, this.device.heatSetpoint)
         \/ this.CoolingThresholdTemperature
              # toCelsius(this, this.device.coolSetpoint)
         \/ this.TargetHeatingCoolingState # modes(this.device.mode)
    /\ ev.write.kind # "thermostat" => (ev.write = NoWrite /\ ~ev.refresh)

\* a flush in Heat mode found the three equal and issued nothing, the target
\* temperature apart from the heat setpoint of the snapshot
C7_Witness ==
  /\ ev.op = "ThermostatFlush"
  /\ ev.write = NoWrite
  /\ ~ev.refresh
  /\ this.TargetHeatingCoolingState = HEAT
  /\ this.TargetTemperature # toCelsius(this, this.device.heatSetpoint)

\* C8: the payload of a thermostat write has the mode name at index
\* TargetHeatingCoolingState and the setpoints of the target state, each
\* converted to the remote unit.
C8_Payload ==
  (ev.op = "ThermostatFlush" /\ ev.write.kind = "thermostat") =>
    /\ ev.write.mode = honeywellMode[this.TargetHeatingCoolingState + 1]
    /\ CASE this.TargetHeatingCoolingState = HEAT ->
              /\ ev.write.heatSetpoint = toFahrenheit(this, this.TargetTemperature)
              /\ ev.write.coolSetpoint = toFahrenheit(this, this.CoolingThresholdTemperature)
         [] this.TargetHeatingCoolingState = COOL ->
              /\ ev.write.coolSetpoint = toFahrenheit(this, this.TargetTemperature)
              /\ ev.write.heatSetpoint = toFahrenheit(this, this.HeatingThresholdTemperature)
         [] OTHER ->
              /\ ev.write.coolSetpoint = toFahrenheit(this, this.CoolingThresholdTemperature)
              /\ ev.write.heatSetpoint = toFahrenheit(this, this.HeatingThresholdTemperature)

\* a write in Cool mode on a Fahrenheit device, the target temperature apart
\* from the cooling threshold
C8_Witness ==
  /\ ev.op = "ThermostatFlush"
  /\ ev.write.kind = "thermostat"
  /\ ev.write.mode = "Cool"
  /\ this.TemperatureDisplayUnits = FAHRENHEIT
  /\ this.TargetTemperature # this.CoolingThresholdTemperature
  /\ this.TargetTemperature # this.HeatingThresholdTemperature

\* C9, as claimed: every fan flush issues a fan write, and the refresh path
\* is run after the write also when the write fails.
C9_AlwaysWriteAlwaysRefresh ==
  /\ ev.op = "FanFlush" => ev.write.kind = "fan"
  /\ (ev.op \in {"PostOk", "PostFail"} /\ ev.kind = "fan") => ev.refresh

\* C9, amended: a fan flush issues a fan write whenever the snapshot has the
\* fan enabled, whatever the fetched fan mode, and else goes straight to the
\* refresh; the refresh is run after a write that succeeded and not after one
\* that failed.
C9_WriteThenRefreshOnSuccess ==
  /\ ev.op = "FanFlush" =>
       IF FanEnabled(this, hide_fan)
       THEN ev.write.kind = "fan" /\ ~ev.refresh
       ELSE ev.write = NoWrite /\ ev.refresh
  /\ (ev.op = "PostOk" /\ ev.kind = "fan") => ev.refresh
  /\ (ev.op = "PostFail" /\ ev.kind = "fan") => ~ev.refresh

\* a fan flush wrote the mode the device already had
C9_Witness ==
  /\ ev.op = "FanFlush"
  /\ ev.write.kind = "fan"
  /\ ev.write.mode = this.deviceFan

\* C10: the fan payload is Auto for TargetFanState Auto, On for Manual and
\* active, Circulate for Manual and inactive; and the state a refresh derives
\* from a fan mode flushes back to that mode.
C10_FanRoundTrip ==
  /\ (ev.op = "FanFlush" /\ ev.write.kind = "fan") =>
       ev.write.mode =
         (CASE this.TargetFanState = FAN_AUTO -> "Auto"
            [] this.TargetFanState = FAN_MANUAL /\ this.Active = ACTIVE -> "On"
            [] this.TargetFanState = FAN_MANUAL /\ this.Active = INACTIVE -> "Circulate")
  /\ (ev.op = "Refreshed" /\ FanEnabled(this, hide_fan)) =>
       FanPayload(this).mode = this.deviceFan

\* a refresh derived the fan state from Circulate
C10_Witness ==
  /\ ev.op = "Refreshed"
  /\ FanEnabled(this, hide_fan)
  /\ this.deviceFan = "Circulate"
  /\ this.TargetFanState = FAN_MANUAL
  /\ this.Active = INACTIVE

SetOps ==
  {"setTargetHeatingCoolingState", "setTargetTemperature",
   "setHeatingThresholdTemperature", "setCoolingThresholdTemperature",
   "setTemperatureDisplayUnits", "setActive", "setTargetFanState"}

\* the Characteristic State fields
StateFields ==
  {"CurrentTemperature", "TargetTemperature", "CurrentHeatingCoolingState",
   "TargetHeatingCoolingState", "CoolingThresholdTemperature",
   "HeatingThresholdTemperature", "CurrentRelativeHumidity",
   "TemperatureDisplayUnits", "Active", "TargetFanState"}

\* the field and the channel of each single-field set handler
Own ==
  [setHeatingThresholdTemperature |->
     [field |-> "HeatingThresholdTemperature", ch |-> "thermo"],
   setCoolingThresholdTemperature |->
     [field |-> "CoolingThresholdTemperature", ch |-> "thermo"],
   setTargetTemperature |-> [field |-> "TargetTemperature", ch |-> "thermo"],
   setActive |-> [field |-> "Active", ch |-> "fan"],
   setTargetFanState |-> [field |-> "TargetFanState", ch |-> "fan"]]

\* C11: setTargetHeatingCoolingState(v) leaves TargetTemperature at the
\* normalized heatSetpoint of the snapshot when v is Heat and at the normalized
\* coolSetpoint otherwise, publishes it, and issues no network call itself: the
\* flush is only scheduled.
C11_TargetFollowsState ==
  ev.op = "setTargetHeatingCoolingState" =>
    /\ this.TargetTemperature =
         (IF this.TargetHeatingCoolingState = HEAT
          THEN toCelsius(this, this.device.heatSetpoint)
          ELSE toCelsius(this, this.device.coolSetpoint))
    /\ ev.updated = {"TargetTemperature"}
    /\ ev.write = NoWrite
    /\ ~ev.refresh
    /\ debounce["thermo"] = DebounceTicks

\* Cool is set on a Celsius device whose coolSetpoint is 22
C11_Witness ==
  /\ ev.op = "setTargetHeatingCoolingState"
  /\ this.TargetHeatingCoolingState = COOL
  /\ this.TemperatureDisplayUnits = CELSIUS
  /\ this.device.coolSetpoint = Deg(22)
  /\ this.TargetTemperature = Deg(22)
  /\ this.TargetTemperature # toCelsius(this, this.device.heatSetpoint)

\* C12: every set handler calls callback(null) within the handler, and no
\* other callback (a timer, a flush, the outcome of a request) calls it.
C12_AckedInHandler ==
  /\ ev.op \in SetOps => ev.ack
  /\ ev.op \notin SetOps => ~ev.ack

\* a set is acknowledged while a request is in flight
C12_Witness ==
  /\ ev.op = "setActive"
  /\ ev.ack
  /\ tasks[<<"fan", "get">>] > 0

\* C13: each of the five single-field set handlers changes no Characteristic
\* State field but its own, arms the debounce of its own channel, and leaves
\* the snapshot, the fan sub-resource, the other channel and the requests in
\* flight as they were.
C13_SetFrame ==
  [][\A h \in DOMAIN Own :
       ev'.op = h =>
         /\ \A f \in StateFields \ {Own[h].field} : this'[f] = this[f]
         /\ this'.device = this.device
         /\ this'.deviceFan = this.deviceFan
         /\ debounce'[Own[h].ch] = DebounceTicks
         /\ \A ch \in Channels \ {Own[h].ch} : debounce'[ch] = debounce[ch]
         /\ Own[h].ch = "thermo" =>
              /\ this'.thermostatUpdateInProgress
              /\ this'.fanUpdateInProgress = this.fanUpdateInProgress
         /\ Own[h].ch = "fan" =>
              /\ this'.fanUpdateInProgress
              /\ this'.thermostatUpdateInProgress = this.thermostatUpdateInProgress
         /\ tasks' = tasks]_vars

\* the target temperature is set while the fan channel waits for its flush
C13_Witness ==
  /\ ev.op = "setTargetTemperature"
  /\ this.TargetTemperature = Deg(22)
  /\ this.HeatingThresholdTemperature = Deg(20)
  /\ debounce["thermo"] = DebounceTicks
  /\ debounce["fan"] = 1
  /\ this.fanUpdateInProgress

\* C14: setTemperatureDisplayUnits(v) changes no state, arms no debounce and
\* issues no request; its timer, when it runs, publishes the display unit the
\* object has, and changes nothing either.
C14_UnitsNoOp ==
  [][/\ ev'.op = "setTemperatureDisplayUnits" =>
          /\ this' = this
          /\ debounce' = debounce
          /\ tasks' = tasks
          /\ ev'.updated = {}
          /\ ev'.write = NoWrite
          /\ ~ev'.refresh
     /\ ev'.op = "UnitsTimeout" =>
          /\ Head(unitTimers).left = 0
          /\ ev'.updated = {"TemperatureDisplayUnits"}
          /\ ev'.units = this.TemperatureDisplayUnits
          /\ this' = this
          /\ debounce' = debounce
          /\ tasks' = tasks
          /\ ev'.write = NoWrite
          /\ ~ev'.refresh]_vars

\* the timer of a set of Celsius publishes Fahrenheit
C14_Witness ==
  /\ ev.op = "UnitsTimeout"
  /\ ev.units = FAHRENHEIT
  /\ this.TemperatureDisplayUnits = FAHRENHEIT

\* C15: a recompute after a refresh leaves HeatingThresholdTemperature as it
\* was when the heatSetpoint of the new snapshot is not positive and makes it
\* the normalized heatSetpoint when it is; likewise CoolingThresholdTemperature
\* and the coolSetpoint.
C15_ThresholdsKept ==
  [][ev'.op = "Refreshed" =>
       /\ this'.HeatingThresholdTemperature =
            (IF this'.device.heatSetpoint > 0
             THEN toCelsius(this', this'.device.heatSetpoint)
             ELSE this.HeatingThresholdTemperature)
       /\ this'.CoolingThresholdTemperature =
            (IF this'.device.coolSetpoint > 0
             THEN toCelsius(this', this'.device.coolSetpoint)
             ELSE this.CoolingThresholdTemperature)]_vars

\* a refresh has delivered a heatSetpoint of 0 and the heating threshold is
\* the 20 degrees of the snapshot before it
C15_Witness ==
  /\ ev.op = "Refreshed"
  /\ this.device.heatSetpoint = 0
  /\ this.HeatingThresholdTemperature = Deg(20)
  /\ this.CoolingThresholdTemperature = toCelsius(this, this.device.coolSetpoint)

\* C16, as claimed: after every successful refresh TargetTemperature is the
\* normalized heatSetpoint of the new snapshot when the target state is Heat
\* and the normalized coolSetpoint otherwise, and CurrentHeatingCoolingState
\* is 1 for operationStatus.mode Heat, 2 for Cool and 0 for anything else.
C16_TargetFromSnapshot ==
  ev.op = "Refreshed" =>
    /\ this.TargetTemperature =
         (IF this.TargetHeatingCoolingState = HEAT
          THEN toCelsius(this, this.device.heatSetpoint)
          ELSE toCelsius(this, this.device.coolSetpoint))
    /\ this.CurrentHeatingCoolingState =
         (CASE this.device.opMode = "Heat" -> 1
            [] this.device.opMode = "Cool" -> 2
            [] OTHER -> 0)

\* C16, amended: the setpoint is taken when it is positive or the snapshot
\* reports a minimum for it; when it is neither, TargetTemperature keeps its
\* value.  CurrentHeatingCoolingState as claimed.
C16_TargetFromValidSetpoint ==
  [][ev'.op = "Refreshed" =>
       /\ this'.TargetTemperature =
            (IF this'.TargetHeatingCoolingState = HEAT
             THEN IF this'.device.heatSetpoint > 0 \/ this'.device.minHeatSetpoint # 0
                  THEN toCelsius(this', this'.device.heatSetpoint)
                  ELSE this.TargetTemperature
             ELSE IF this'.device.coolSetpoint > 0 \/ this'.device.minCoolSetpoint # 0
                  THEN toCelsius(this', this'.device.coolSetpoint)
                  ELSE this.TargetTemperature)
       /\ this'.TargetHeatingCoolingState = modes(this'.device.mode)
       /\ this'.CurrentHeatingCoolingState =
            (CASE this'.device.opMode = "Heat" -> 1
               [] this'.device.opMode = "Cool" -> 2
               [] OTHER -> 0)]_vars

\* a refresh has put the device in Heat mode while it is cooling, and the
\* target temperature is the heat setpoint
C16_Witness ==
  /\ ev.op = "Refreshed"
  /\ this.TargetHeatingCoolingState = HEAT
  /\ this.device.opMode = "Cool"
  /\ this.CurrentHeatingCoolingState = 2
  /\ this.device.heatSetpoint = 0
  /\ this.device.minHeatSetpoint = 0
  /\ this.TargetTemperature = Deg(21)

\* C17: an accessory without fan controls (no fan reported at construction,
\* or the fan hidden) never has a fan fetch or a fan write in flight, never
\* publishes a fan characteristic or writes a fan mode, and keeps Active,
\* TargetFanState and the fan sub-resource as the constructor left them.
C17_NoFanActivity ==
  ~fanControls =>
    /\ \A kind \in Kinds : tasks[<<kind, "getfan">>] = 0
    /\ tasks[<<"fan", "post">>] = 0
    /\ ev.write.kind # "fan"
    /\ (ev.updated \cup ev.errors) \cap FanChars = {}
    /\ this.Active = INACTIVE
    /\ this.TargetFanState = FAN_MANUAL
    /\ this.deviceFan = "none"

\* the place of a target state in the order Cool, Heat, Off, Auto
EmissionRank(state) ==
  CASE state = COOL -> 1 [] state = HEAT -> 2 [] state = OFF -> 3 [] state = AUTO -> 4

\* C18: TargetState() returns the target states of exactly the allowed modes,
\* each once, in the order Cool, Heat, Off, Auto.
C18_TargetStateOrder ==
  ev.op = "TargetState" =>
    /\ Len(ev.result) = Cardinality(ev.allowedModes)
    /\ {honeywellMode[ev.result[i] + 1] : i \in 1..Len(ev.result)} = ev.allowedModes
    /\ \A i, j \in 1..Len(ev.result) :
         i < j => EmissionRank(ev.result[i]) < EmissionRank(ev.result[j])

\* allowedModes of Heat and Off give [Heat, Off]
C18_Witness ==
  /\ ev.op = "TargetState"
  /\ ev.allowedModes = {"Heat", "Off"}
  /\ ev.result = <<HEAT, OFF>>

\* C19: on a Fahrenheit device toCelsius(v) is the number of half degrees
\* nearest to (5/9)(v-32), a tie going up, and toFahrenheit(c) the whole degree
\* nearest to c*9/5+32, with toCelsius(32) = 0, toCelsius(212) = 100 and
\* toFahrenheit(0) = 32; converting the result of toCelsius to Fahrenheit and
\* back moves it by at most half a degree.  On a Celsius device both return
\* their argument.  (Temperatures are counted in half degrees.)
C19_UnitTranslation ==
  /\ (ev.op = "toCelsius" /\ this.TemperatureDisplayUnits = FAHRENHEIT) =>
       /\ 9 * (2 * ev.result - 1) <= 10 * (ev.value - 64)
       /\ 10 * (ev.value - 64) < 9 * (2 * ev.result + 1)
       /\ ev.value = 2 * 32 => ev.result = 0
       /\ ev.value = 2 * 212 => ev.result = 2 * 100
       /\ toCelsius(this, toFahrenheit(this, ev.result)) - ev.result \in {-1, 0, 1}
  /\ (ev.op = "toFahrenheit" /\ this.TemperatureDisplayUnits = FAHRENHEIT) =>
       /\ ev.result % 2 = 0
       /\ 5 * (ev.result - 1) <= 9 * ev.value + 320
       /\ 9 * ev.value + 320 < 5 * (ev.result + 1)
       /\ ev.value = 0 => ev.result = 2 * 32
  /\ (ev.op \in {"toCelsius", "toFahrenheit"}
        /\ this.TemperatureDisplayUnits = CELSIUS) => ev.result = ev.value

\* 71 degrees Fahrenheit are 21.5 degrees Celsius
C19_Witness ==
  /\ ev.op = "toCelsius"
  /\ this.TemperatureDisplayUnits = FAHRENHEIT
  /\ ev.value = 2 * 71
  /\ ev.result = 43

\* C20: no set handler, flush or timer callback starts in a state in which
\* the snapshot has been replaced and Characteristic State not yet recomputed:
\* the fields only a recompute assigns (display unit, current temperature,
\* humidity, current state) agree with the snapshot whenever one starts.
C20_RecomputedWhenObserved ==
  [][ev'.op \in SetOps \cup Flushes \cup {"IntervalTick", "UnitsTimeout"} =>
       /\ this.TemperatureDisplayUnits =
            (IF this.device.units = "Fahrenheit" THEN FAHRENHEIT ELSE CELSIUS)
       /\ this.CurrentTemperature = toCelsius(this, this.device.indoorTemperature)
       /\ this.CurrentRelativeHumidity = this.device.indoorHumidity
       /\ this.CurrentHeatingCoolingState =
            (CASE this.device.opMode = "Heat" -> 1
               [] this.device.opMode = "Cool" -> 2
               [] OTHER -> 0)]_vars

\* C21: a refresh cycle of which a request fails leaves the snapshot and the
\* Characteristic State as they were before the cycle and publishes error
\* markers only (stated for the cycles before the first that succeeds, when
\* the fan sub-resource has never been fetched: before those cycles the object
\* is as the constructor left it, up to the fan fields the host sets).
C21_FailedCycleDiscarded ==
  (ev.op \in {"GetFail", "FanGetFail"} /\ this.deviceFan = "none") =>
    /\ this.device = HeatingF
    /\ \A f \in StateFields \ {"Active", "TargetFanState"} :
         this[f] = parseStatus(Blank(HeatingF), hide_fan)[f]
    /\ ev.updated = {}
    /\ ev.errors # {}

InFlight(kind) ==
  tasks[<<kind, "post">>] + tasks[<<kind, "get">>] + tasks[<<kind, "getfan">>]

NoTimerDue ==
  /\ \A ch \in Channels : debounce[ch] # 0
  /\ \A i \in 1..Len(unitTimers) : unitTimers[i].left # 0

\* C22: a network call that has not returned blocks no other pipeline.  While
\* a thermostat write or its refresh is in flight, every fan set can run,
\* mutates Characteristic State, is acknowledged and opens the debounce
\* window, the window runs down, and the fan flush at its end issues the fan
\* write (when the snapshot has a fan); while a fan write is in flight, every thermostat set can run in the
\* same way, the thermostat flush at the end of its window can run, and a
\* refresh timer tick starts a refresh cycle unless the thermostat flag holds
\* it back.  (A call can be started while fewer than MaxTasks are in flight;
\* a flush that is due runs before a set of its channel.)
C22_StuckCallBlocksOnlyItsPipeline ==
  /\ InFlight("thermo") > 0 =>
       /\ debounce["fan"] # 0 =>
            /\ \A value \in {INACTIVE, ACTIVE} :
                 ENABLED (setActive(value) /\ this'.Active = value /\ ev'.ack
                            /\ debounce'["fan"] = DebounceTicks)
            /\ \A value \in {FAN_MANUAL, FAN_AUTO} :
                 ENABLED (setTargetFanState(value) /\ this'.TargetFanState = value
                            /\ ev'.ack /\ debounce'["fan"] = DebounceTicks)
       /\ (debounce["fan"] > 0 /\ NoTimerDue) =>
            ENABLED (Tick /\ debounce'["fan"] = debounce["fan"] - 1)
       /\ (debounce["fan"] = 0 /\ NumTasks < MaxTasks) =>
            ENABLED (FanFlush
                       /\ (FanEnabled(this, hide_fan) => ev'.write = FanPayload(this)))
  /\ tasks[<<"fan", "post">>] > 0 =>
       /\ debounce["thermo"] # 0 =>
            ENABLED (setHeatingThresholdTemperature(Deg(21))
                       /\ this'.HeatingThresholdTemperature = Deg(21) /\ ev'.ack
                       /\ debounce'["thermo"] = DebounceTicks)
       /\ (debounce["thermo"] > 0 /\ NoTimerDue) =>
            ENABLED (Tick /\ debounce'["thermo"] = debounce["thermo"] - 1)
       /\ (debounce["thermo"] = 0 /\ NumTasks < MaxTasks) =>
            ENABLED (ThermostatFlush
                       /\ (Differs(this) => ev'.write = ThermostatPayload(this)))
       /\ (~this.thermostatUpdateInProgress /\ NumTasks < MaxTasks) =>
            ENABLED (IntervalTick /\ ev'.refresh)

\* a fan flush has just issued the fan write while a thermostat write is
\* still in flight
C22_Witness ==
  /\ ev.op = "FanFlush"
  /\ ev.write.kind = "fan"
  /\ tasks[<<"thermo", "post">>] > 0

(***************************************************************************)
(* The first refresh cycle of the timer, with the host sets that arrive    *)
(* while its device fetch is in flight, and the flushes and refresh cycles *)
(* those sets lead to.  The timer fetch is issued with no call in flight,  *)
(* so every fetch in flight together with it was issued after it.          *)
(***************************************************************************)
InitRace == \E d \in {HeatingF, CoolingF} : Constructed(d, TRUE, FALSE)

NextRace ==
  \/ skipping /\ NumTasks = 0 /\ IntervalTick
  \/ /\ tasks[<<"timer", "get">>] > 0
     /\ \E i \in 1..Len(validValues) : validValues[i] = OFF
     /\ setTargetHeatingCoolingState(OFF)
  \/ tasks[<<"timer", "get">>] > 0 /\ setHeatingThresholdTemperature(Deg(21))
  \/ tasks[<<"timer", "get">>] > 0 /\ setCoolingThresholdTemperature(Deg(23))
  \/ tasks[<<"timer", "get">>] > 0 /\ setTargetTemperature(Deg(21))
  \/ ThermostatFlush
  \/ PostOk("thermo")
  \/ PostFail("thermo")
  \/ \E kind \in {"timer", "thermo"}, d \in Snapshots : GetOk(kind, d)
  \/ \E kind \in {"timer", "thermo"} : GetFail(kind, "get")
  \/ Tick

SpecRace == InitRace /\ [][NextRace]_vars

\* C23: a host set of a threshold, of the target temperature or of the target
\* state that arrives while a refresh has its fetch in flight takes effect at
\* once and is acknowledged, and the recompute of a successful fetch is the
\* last writer: after it the target state is the snapshot's, and each threshold
\* and the target temperature are the snapshot's where its setpoint is positive.
C23_RefreshIsLastWriter ==
  [][/\ ev'.op = "setTargetHeatingCoolingState" =>
          ev'.ack /\ this'.TargetHeatingCoolingState = OFF
     /\ ev'.op = "setHeatingThresholdTemperature" =>
          ev'.ack /\ this'.HeatingThresholdTemperature = Deg(21)
     /\ ev'.op = "setCoolingThresholdTemperature" =>
          ev'.ack /\ this'.CoolingThresholdTemperature = Deg(23)
     /\ ev'.op = "setTargetTemperature" =>
          ev'.ack /\ this'.TargetTemperature = Deg(21)
     /\ ev'.op = "Refreshed" =>
          /\ this'.TargetHeatingCoolingState = modes(this'.device.mode)
          /\ this'.device.heatSetpoint > 0 =>
               this'.HeatingThresholdTemperature =
                 toCelsius(this', this'.device.heatSetpoint)
          /\ this'.device.coolSetpoint > 0 =>
               this'.CoolingThresholdTemperature =
                 toCelsius(this', this'.device.coolSetpoint)
          /\ (this'.TargetHeatingCoolingState = HEAT
                /\ this'.device.heatSetpoint > 0) =>
               this'.TargetTemperature = toCelsius(this', this'.device.heatSetpoint)
          /\ (this'.TargetHeatingCoolingState # HEAT
                /\ this'.device.coolSetpoint > 0) =>
               this'.TargetTemperature = toCelsius(this', this'.device.coolSetpoint)]_vars

\* the timer's refresh has just recomputed while the setTargetTemperature call
\* that arrived during its fetch is still waiting in the debounce window, and
\* the target temperature is the snapshot's, not the value the host set
C23_Witness ==
  /\ ev.op = "Refreshed"
  /\ ev.kind = "timer"
  /\ debounce["thermo"] # NoTimer
  /\ ttBurst.n > 0
  /\ this.TargetTemperature # ttBurst.v
  /\ this.TargetHeatingCoolingState = HEAT
  /\ this.TargetTemperature = toCelsius(this, this.device.heatSetpoint)

\* C24: at most one flush of a channel is in progress at any time: no
\* pushChanges invocation is waiting for its write or for its follow-up
\* refresh while another one is, and the same for pushFanChanges.
C24_OneFlushAtATime ==
  /\ InFlight("thermo") <= 1
  /\ InFlight("fan") <= 1

\* C25: while a thermostat pending-change notification is waiting in the
\* debounce window, or a thermostat flush has started and not finished,
\* thermostatUpdateInProgress is true.
C25_FlagCoversPendingAndRunning ==
  (debounce["thermo"] # NoTimer \/ InFlight("thermo") > 0) =>
    this.thermostatUpdateInProgress

\* C26: right after every successful refresh, before any host set, local state
\* is in sync with the snapshot: the diff check of the thermostat flush finds
\* no difference, so a flush in that state issues no write; for every
\* snapshot, those with a heat or cool setpoint of 0 included.
C26_InSyncAfterRefresh ==
  ev.op = "Refreshed" => ~Differs(this)

\* C27: the snapshot is never replaced by the response of an earlier-issued
\* device fetch after the response of a later-issued one has been applied.
\* Here the earlier fetch is the timer's, issued with no call in flight, and
\* the later one is the follow-up fetch of a thermostat flush, issued and
\* answered while the timer's fetch is in flight: once the flush's response
\* has been applied, the timer's response is not applied after it.
C27_NoStaleOverwrite ==
  [][(ev.op = "Refreshed" /\ ev.kind = "thermo" /\ tasks[<<"timer", "get">>] > 0)
       => ~(ev'.op = "Refreshed" /\ ev'.kind = "timer")]_vars

(***************************************************************************)
(* Both channels of a thermostat with fan controls, under fairness: time   *)
(* passes while a debounce window is open and a debounce timer that is due *)
(* runs its subscriber (Timers), and a call in flight is answered, with    *)
(* success or with failure (Answer).  The host may stop setting at any     *)
(* time; once it has, only finitely many timers and calls are left, so the *)
(* fairness of Progress makes every timer fire and every call return.      *)
(***************************************************************************)
InitLive == Constructed(HeatingF, FALSE, FALSE)

Answer ==
  \E kind \in {"thermo", "fan"} :
    \/ PostOk(kind)
    \/ PostFail(kind)
    \/ GetOk(kind, HeatingF)
    \/ FanGetOk(kind, "Auto")
    \/ \E pc \in {"get", "getfan"} : GetFail(kind, pc)

Timers ==
  \/ Tick
  \/ ThermostatFlush
  \/ FanFlush

NextLive ==
  \/ setHeatingThresholdTemperature(Deg(21))
  \/ setActive(ACTIVE)
  \/ Timers
  \/ Answer

\* the engine does not stop while a timer can run or a call can be answered
Progress ==
  \/ Timers
  \/ Answer

SpecLive ==
  /\ InitLive
  /\ [][NextLive]_vars
  /\ WF_vars(Progress)

Settled ==
  /\ \A ch \in Channels : debounce[ch] = NoTimer
  /\ InFlight("thermo") = 0
  /\ InFlight("fan") = 0
  /\ ~this.thermostatUpdateInProgress
  /\ ~this.fanUpdateInProgress

\* a flush of the channel has started since the last set of the channel
EverySetFlushed ==
  \A ch \in Channels : burst[ch].begun => burst[ch].flushes > 0

\* C28: if the host sets eventually stop (and every call is answered, which
\* the fairness of SpecLive states), then from some point on no flush is
\* pending or running and both in-progress flags are false, for good, and on
\* each channel a flush has started after the last set: every host set is
\* followed by a flush of its channel that starts after it.
C28_SettlesAfterLastSet ==
  (<>[](ev.op \notin SetOps)) => <>[](Settled /\ EverySetFlushed)

\* sets on both channels have been flushed, every call has been answered and
\* the last answer has left both flags false with nothing pending
C28_Witness ==
  /\ Settled
  /\ burst["thermo"].flushes > 0
  /\ burst["fan"].flushes > 0
  /\ ev.op \in {"Refreshed"} \cup Failures

====
